---- MODULE Spec2Model ----
(***************************************************************************)
(* Model of the aggregate function groupArrayInsertAt                      *)
(* (src/AggregateFunctions/AggregateFunctionGroupArrayInsertAt.cpp).       *)
(*                                                                         *)
(* A Field is modelled as a sequence of length at most one: <<>> is the    *)
(* Null field, <<v>> is a field holding the number v.  An Array is a       *)
(* sequence of Fields; slot i of the source (0-based) is element i + 1.    *)
(***************************************************************************)
EXTENDS Integers, Sequences, FiniteSets, TLC

\* ------------------------------------------------------------------------
\* Bounds of the model

\* The numbers a row can carry: the value type's default and another one.
Values == {0, 1}

\* The cap on the number of slots.  The source sets 0xFFFFFF; the model is
\* scaled down, every comparison against it is kept as in the source.
AGGREGATE_FUNCTION_GROUP_ARRAY_INSERT_AT_MAX_SIZE == 2

MaxSize == AGGREGATE_FUNCTION_GROUP_ARRAY_INSERT_AT_MAX_SIZE

\* ------------------------------------------------------------------------
\* Fields and arrays

Null == <<>>

isNull(f) == f = Null

\* The two aggregation states of a merge: the destination and the other side.
Places == {1, 2}

\* Positions a row can carry: every slot below the cap, the cap, and above.
Positions == 0 .. (MaxSize + 1)

\* Values of the first argument column.
ColumnValues(nullable) ==
    {<<v>> : v \in Values} \cup (IF nullable THEN {Null} ELSE {})

NoException == "none"

VARIABLES
    type_nullable,      \* the value type is Nullable(T)
    default_value,      \* Field default_value
    length_to_resize,   \* UInt64 length_to_resize, 0 = no resizing
    arr,                \* arr[place] = data(place).value
    to_data,            \* nested data column of the result ColumnArray
    to_offsets,         \* offsets of the result ColumnArray
    finalized,          \* the place whose result the column holds, 0 if none
    exception,          \* what the last call threw, NoException if nothing
    last,               \* the last call and the branch it took
    tracking,           \* the history of inserts is being recorded
    first,              \* per place: the first value each position received,
                        \* and the positions that received a value again
    serial              \* the state that the rows of place 1 followed by the
                        \* rows of place 2 build when inserted into one state

vars == <<type_nullable, default_value, length_to_resize, arr, to_data,
          to_offsets, finalized, exception, last, tracking, first,
          serial>>

config == <<type_nullable, default_value, length_to_resize, tracking>>

\* ------------------------------------------------------------------------
\* Construction

\* type->getDefault()
getDefault(nullable) == IF nullable THEN Null ELSE <<0>>

\* A parameter that convertFieldToType cannot convert to the value type.
NotConvertible == 100

\* convertFieldToType(f, *type): Null when the conversion is impossible.
convertFieldToType(f) == IF f = <<NotConvertible>> THEN Null ELSE f

\* Parameter lists tried at construction: (), (default), (default, length)
\* and a list of three.
ParamDefaults == {Null, <<-1>>, <<NotConvertible>>}

Parameters ==
    {<<>>}
    \cup {<<d>> : d \in ParamDefaults}
    \cup {<<d, <<n>>>> : d \in ParamDefaults, n \in 0 .. (MaxSize + 1)}
    \cup {<<Null, <<1>>, <<1>>>>}

\* The constructor with the length compared by >= instead of >.
Constructor_length_off_by_one(nullable, position_isUInt, params) ==
    LET given == IF Len(params) >= 1 THEN params[1] ELSE Null
        len == IF Len(params) = 2 THEN params[2][1] ELSE 0
    IN  IF Len(params) > 2
        THEN [exception |-> "TOO_MANY_ARGUMENTS_FOR_FUNCTION",
              default_value |-> Null, length_to_resize |-> 0]
        ELSE IF Len(params) = 2
                /\ len >= AGGREGATE_FUNCTION_GROUP_ARRAY_INSERT_AT_MAX_SIZE
        THEN [exception |-> "TOO_LARGE_ARRAY_SIZE",
              default_value |-> given, length_to_resize |-> len]
        ELSE IF ~position_isUInt
        THEN [exception |-> "ILLEGAL_TYPE_OF_ARGUMENT",
              default_value |-> given, length_to_resize |-> len]
        ELSE IF isNull(given)
        THEN [exception |-> NoException,
              default_value |-> getDefault(nullable),
              length_to_resize |-> len]
        ELSE IF isNull(convertFieldToType(given))
        THEN [exception |-> "CANNOT_CONVERT_TYPE",
              default_value |-> given, length_to_resize |-> len]
        ELSE [exception |-> NoException,
              default_value |-> convertFieldToType(given),
              length_to_resize |-> len]

\* The constructor: the configuration it leaves, or the exception it throws.
\* position_isUInt is isUInt(arguments[1]).
Constructor(nullable, position_isUInt, params) ==
    LET given == IF Len(params) >= 1 THEN params[1] ELSE Null
        len == IF Len(params) = 2 THEN params[2][1] ELSE 0
    IN  IF Len(params) > 2
        THEN [exception |-> "TOO_MANY_ARGUMENTS_FOR_FUNCTION",
              default_value |-> Null, length_to_resize |-> 0]
        ELSE IF len > AGGREGATE_FUNCTION_GROUP_ARRAY_INSERT_AT_MAX_SIZE
        THEN [exception |-> "TOO_LARGE_ARRAY_SIZE",
              default_value |-> given, length_to_resize |-> len]
        ELSE IF ~position_isUInt
        THEN [exception |-> "ILLEGAL_TYPE_OF_ARGUMENT",
              default_value |-> given, length_to_resize |-> len]
        ELSE IF isNull(given)
        THEN [exception |-> NoException,
              default_value |-> getDefault(nullable),
              length_to_resize |-> len]
        ELSE IF isNull(convertFieldToType(given))
        THEN [exception |-> "CANNOT_CONVERT_TYPE",
              default_value |-> given, length_to_resize |-> len]
        ELSE [exception |-> NoException,
              default_value |-> convertFieldToType(given),
              length_to_resize |-> len]

\* ------------------------------------------------------------------------
\* Array helpers

\* Array::resize(n): cut, or pad with Null fields.
RECURSIVE resize(_, _)
resize(a, n) ==
    IF Len(a) = n THEN a
    ELSE IF Len(a) > n THEN SubSeq(a, 1, n)
    ELSE resize(Append(a, Null), n)

\* a[i] = f for the 0-based index i.
assign(a, i, f) == [a EXCEPT ![i + 1] = f]

\* ------------------------------------------------------------------------
\* add

\* add with the cap compared by > instead of >=.
add_cap_off_by_one(a, position, value) ==
    IF length_to_resize # 0 /\ position >= length_to_resize
    THEN [value |-> a, exception |-> NoException, branch |-> "add ignored"]
    ELSE IF position > AGGREGATE_FUNCTION_GROUP_ARRAY_INSERT_AT_MAX_SIZE
    THEN [value |-> a, exception |-> "TOO_LARGE_ARRAY_SIZE",
          branch |-> "add thrown"]
    ELSE IF Len(a) <= position
    THEN [value |-> assign(resize(a, position + 1), position, value),
          exception |-> NoException, branch |-> "add resized"]
    ELSE IF ~isNull(a[position + 1])
    THEN [value |-> a, exception |-> NoException, branch |-> "add kept"]
    ELSE [value |-> assign(a, position, value), exception |-> NoException,
          branch |-> "add stored"]

\* add without the test for an element that was already inserted.
add_overwrite(a, position, value) ==
    IF length_to_resize # 0 /\ position >= length_to_resize
    THEN [value |-> a, exception |-> NoException, branch |-> "add ignored"]
    ELSE IF position >= AGGREGATE_FUNCTION_GROUP_ARRAY_INSERT_AT_MAX_SIZE
    THEN [value |-> a, exception |-> "TOO_LARGE_ARRAY_SIZE",
          branch |-> "add thrown"]
    ELSE IF Len(a) <= position
    THEN [value |-> assign(resize(a, position + 1), position, value),
          exception |-> NoException, branch |-> "add resized"]
    ELSE [value |-> assign(a, position, value), exception |-> NoException,
          branch |-> "add stored"]

\* add with the cap tested before the length to resize to.
add_cap_first(a, position, value) ==
    IF position >= AGGREGATE_FUNCTION_GROUP_ARRAY_INSERT_AT_MAX_SIZE
    THEN [value |-> a, exception |-> "TOO_LARGE_ARRAY_SIZE",
          branch |-> "add thrown"]
    ELSE IF length_to_resize # 0 /\ position >= length_to_resize
    THEN [value |-> a, exception |-> NoException, branch |-> "add ignored"]
    ELSE IF Len(a) <= position
    THEN [value |-> assign(resize(a, position + 1), position, value),
          exception |-> NoException, branch |-> "add resized"]
    ELSE IF ~isNull(a[position + 1])
    THEN [value |-> a, exception |-> NoException, branch |-> "add kept"]
    ELSE [value |-> assign(a, position, value), exception |-> NoException,
          branch |-> "add stored"]

\* add returning at the cap without throwing.
add_cap_silent(a, position, value) ==
    IF length_to_resize # 0 /\ position >= length_to_resize
    THEN [value |-> a, exception |-> NoException, branch |-> "add ignored"]
    ELSE IF position >= AGGREGATE_FUNCTION_GROUP_ARRAY_INSERT_AT_MAX_SIZE
    THEN [value |-> a, exception |-> NoException, branch |-> "add ignored"]
    ELSE IF Len(a) <= position
    THEN [value |-> assign(resize(a, position + 1), position, value),
          exception |-> NoException, branch |-> "add resized"]
    ELSE IF ~isNull(a[position + 1])
    THEN [value |-> a, exception |-> NoException, branch |-> "add kept"]
    ELSE [value |-> assign(a, position, value), exception |-> NoException,
          branch |-> "add stored"]

\* add without the test against length_to_resize.
add_no_truncation(a, position, value) ==
    IF position >= AGGREGATE_FUNCTION_GROUP_ARRAY_INSERT_AT_MAX_SIZE
    THEN [value |-> a, exception |-> "TOO_LARGE_ARRAY_SIZE",
          branch |-> "add thrown"]
    ELSE IF Len(a) <= position
    THEN [value |-> assign(resize(a, position + 1), position, value),
          exception |-> NoException, branch |-> "add resized"]
    ELSE IF ~isNull(a[position + 1])
    THEN [value |-> a, exception |-> NoException, branch |-> "add kept"]
    ELSE [value |-> assign(a, position, value), exception |-> NoException,
          branch |-> "add stored"]

\* add storing default_value in place of a null value.
add_null_as_default(a, position, value) ==
    LET stored == IF isNull(value) THEN default_value ELSE value
    IN  IF length_to_resize # 0 /\ position >= length_to_resize
        THEN [value |-> a, exception |-> NoException,
              branch |-> "add ignored"]
        ELSE IF position >= AGGREGATE_FUNCTION_GROUP_ARRAY_INSERT_AT_MAX_SIZE
        THEN [value |-> a, exception |-> "TOO_LARGE_ARRAY_SIZE",
              branch |-> "add thrown"]
        ELSE IF Len(a) <= position
        THEN [value |-> assign(resize(a, position + 1), position, stored),
              exception |-> NoException, branch |-> "add resized"]
        ELSE IF ~isNull(a[position + 1])
        THEN [value |-> a, exception |-> NoException, branch |-> "add kept"]
        ELSE [value |-> assign(a, position, stored),
              exception |-> NoException, branch |-> "add stored"]

\* add returning at once for a null value.
add_skip_null(a, position, value) ==
    IF isNull(value) \/ (length_to_resize # 0 /\ position >= length_to_resize)
    THEN [value |-> a, exception |-> NoException, branch |-> "add ignored"]
    ELSE IF position >= AGGREGATE_FUNCTION_GROUP_ARRAY_INSERT_AT_MAX_SIZE
    THEN [value |-> a, exception |-> "TOO_LARGE_ARRAY_SIZE",
          branch |-> "add thrown"]
    ELSE IF Len(a) <= position
    THEN [value |-> assign(resize(a, position + 1), position, value),
          exception |-> NoException, branch |-> "add resized"]
    ELSE IF ~isNull(a[position + 1])
    THEN [value |-> a, exception |-> NoException, branch |-> "add kept"]
    ELSE [value |-> assign(a, position, value), exception |-> NoException,
          branch |-> "add stored"]

\* The array add leaves, the exception it throws and the branch it took.
add(a, position, value) ==
    IF length_to_resize # 0 /\ position >= length_to_resize
    THEN [value |-> a, exception |-> NoException, branch |-> "add ignored"]
    ELSE IF position >= AGGREGATE_FUNCTION_GROUP_ARRAY_INSERT_AT_MAX_SIZE
    THEN [value |-> a, exception |-> "TOO_LARGE_ARRAY_SIZE",
          branch |-> "add thrown"]
    ELSE IF Len(a) <= position
    THEN [value |-> assign(resize(a, position + 1), position, value),
          exception |-> NoException, branch |-> "add resized"]
    ELSE IF ~isNull(a[position + 1])
    THEN [value |-> a, exception |-> NoException, branch |-> "add kept"]
    ELSE [value |-> assign(a, position, value), exception |-> NoException,
          branch |-> "add stored"]

\* ------------------------------------------------------------------------
\* merge

\* The loop of merge copying every non-null element of rhs.
RECURSIVE mergeLoop_rhs_wins(_, _, _)
mergeLoop_rhs_wins(lhs, rhs, i) ==
    IF i >= Len(rhs) THEN lhs
    ELSE IF ~isNull(rhs[i + 1])
    THEN mergeLoop_rhs_wins(assign(lhs, i, rhs[i + 1]), rhs, i + 1)
    ELSE mergeLoop_rhs_wins(lhs, rhs, i + 1)

\* The loop of merge from index i on.
RECURSIVE mergeLoop(_, _, _)
mergeLoop(lhs, rhs, i) ==
    IF i >= Len(rhs) THEN lhs
    ELSE IF isNull(lhs[i + 1]) /\ ~isNull(rhs[i + 1])
    THEN mergeLoop(assign(lhs, i, rhs[i + 1]), rhs, i + 1)
    ELSE mergeLoop(lhs, rhs, i + 1)

\* merge resizing the destination to the size of rhs in every case.
merge_always_resize(arr_lhs, arr_rhs) ==
    mergeLoop(resize(arr_lhs, Len(arr_rhs)), arr_rhs, 0)

\* merge whose loop starts at index 1.
merge_skip_first(arr_lhs, arr_rhs) ==
    LET resized == IF Len(arr_lhs) < Len(arr_rhs)
                   THEN resize(arr_lhs, Len(arr_rhs))
                   ELSE arr_lhs
    IN  mergeLoop(resized, arr_rhs, 1)

\* merge that leaves the size of the destination as it is and drops the
\* elements of rhs beyond it.
merge_no_resize(arr_lhs, arr_rhs) ==
    mergeLoop(arr_lhs,
              IF Len(arr_lhs) < Len(arr_rhs)
              THEN SubSeq(arr_rhs, 1, Len(arr_lhs)) ELSE arr_rhs,
              0)

merge(arr_lhs, arr_rhs) ==
    LET resized == IF Len(arr_lhs) < Len(arr_rhs)
                   THEN resize(arr_lhs, Len(arr_rhs))
                   ELSE arr_lhs
    IN  mergeLoop(resized, arr_rhs, 0)

\* ------------------------------------------------------------------------
\* Binary codec

EndOfFile == "ATTEMPT_TO_READ_AFTER_EOF"

\* writeVarUInt(x, buf): seven bits a byte, the high bit marks continuation.
RECURSIVE writeVarUInt(_)
writeVarUInt(x) ==
    IF x > 127 THEN <<128 + (x % 128)>> \o writeVarUInt(x \div 128)
    ELSE <<x>>

\* readVarUInt(x, buf) from index pos of buf: the number and the index after
\* it, or eof.
RECURSIVE readVarUIntFrom(_, _, _, _)
readVarUIntFrom(buf, pos, shift, acc) ==
    IF pos > Len(buf) THEN [eof |-> TRUE, x |-> acc, pos |-> pos]
    ELSE IF buf[pos] >= 128
    THEN readVarUIntFrom(buf, pos + 1, shift * 128,
                         acc + (buf[pos] - 128) * shift)
    ELSE [eof |-> FALSE, x |-> acc + buf[pos] * shift, pos |-> pos + 1]

readVarUInt(buf, pos) == readVarUIntFrom(buf, pos, 1, 0)

\* serialization->serializeBinary(elem, buf) of a non-null field: a number
\* is one byte; a Nullable type writes its own null marker before it.
serializeBinary(elem) ==
    IF type_nullable THEN <<0, elem[1]>> ELSE <<elem[1]>>

\* serialization->deserializeBinary(field, buf) from index pos of buf.
deserializeBinary(buf, pos) ==
    IF pos > Len(buf) THEN [eof |-> TRUE, field |-> Null, pos |-> pos]
    ELSE IF ~type_nullable
    THEN [eof |-> FALSE, field |-> <<buf[pos]>>, pos |-> pos + 1]
    ELSE IF buf[pos] # 0
    THEN [eof |-> FALSE, field |-> Null, pos |-> pos + 1]
    ELSE IF pos + 1 > Len(buf)
    THEN [eof |-> TRUE, field |-> Null, pos |-> pos + 1]
    ELSE [eof |-> FALSE, field |-> <<buf[pos + 1]>>, pos |-> pos + 2]

\* The loop of serialize writing the null flag the other way round.
RECURSIVE serializeLoop_flag_swapped(_, _)
serializeLoop_flag_swapped(a, i) ==
    IF i >= Len(a) THEN <<>>
    ELSE (IF isNull(a[i + 1]) THEN <<0>>
          ELSE <<1>> \o serializeBinary(a[i + 1]))
         \o serializeLoop_flag_swapped(a, i + 1)

\* The loop of serialize from element i on.
RECURSIVE serializeLoop(_, _)
serializeLoop(a, i) ==
    IF i >= Len(a) THEN <<>>
    ELSE (IF isNull(a[i + 1]) THEN <<1>>
          ELSE <<0>> \o serializeBinary(a[i + 1]))
         \o serializeLoop(a, i + 1)

serialize(a) == writeVarUInt(Len(a)) \o serializeLoop(a, 0)

\* The loop of deserialize taking the flag 0 for a null element.
RECURSIVE deserializeLoop_flag_swapped(_, _, _, _, _)
deserializeLoop_flag_swapped(a, buf, pos, i, size) ==
    IF i >= size THEN [value |-> a, exception |-> NoException]
    ELSE IF pos > Len(buf) THEN [value |-> a, exception |-> EndOfFile]
    ELSE IF buf[pos] = 0
    THEN deserializeLoop_flag_swapped(a, buf, pos + 1, i + 1, size)
    ELSE LET d == deserializeBinary(buf, pos + 1)
         IN  IF d.eof THEN [value |-> a, exception |-> EndOfFile]
             ELSE deserializeLoop_flag_swapped(assign(a, i, d.field), buf,
                                               d.pos, i + 1, size)

\* The loop of deserialize from element i on, reading buf from index pos.
RECURSIVE deserializeLoop(_, _, _, _, _)
deserializeLoop(a, buf, pos, i, size) ==
    IF i >= size THEN [value |-> a, exception |-> NoException]
    ELSE IF pos > Len(buf) THEN [value |-> a, exception |-> EndOfFile]
    ELSE IF buf[pos] # 0
    THEN deserializeLoop(a, buf, pos + 1, i + 1, size)
    ELSE LET d == deserializeBinary(buf, pos + 1)
         IN  IF d.eof THEN [value |-> a, exception |-> EndOfFile]
             ELSE deserializeLoop(assign(a, i, d.field), buf, d.pos,
                                  i + 1, size)

\* deserialize with the cap compared by >= instead of >.
deserialize_cap_off_by_one(a, buf) ==
    LET r == readVarUInt(buf, 1)
    IN  IF r.eof THEN [value |-> a, exception |-> EndOfFile]
        ELSE IF r.x >= AGGREGATE_FUNCTION_GROUP_ARRAY_INSERT_AT_MAX_SIZE
        THEN [value |-> a, exception |-> "TOO_LARGE_ARRAY_SIZE"]
        ELSE deserializeLoop(resize(a, r.x), buf, r.pos, 0, r.x)

\* deserialize resizing the array before it tests the size.
deserialize_resize_first(a, buf) ==
    LET r == readVarUInt(buf, 1)
    IN  IF r.eof THEN [value |-> a, exception |-> EndOfFile]
        ELSE IF r.x > AGGREGATE_FUNCTION_GROUP_ARRAY_INSERT_AT_MAX_SIZE
        THEN [value |-> resize(a, r.x),
              exception |-> "TOO_LARGE_ARRAY_SIZE"]
        ELSE deserializeLoop(resize(a, r.x), buf, r.pos, 0, r.x)

deserialize(a, buf) ==
    LET r == readVarUInt(buf, 1)
    IN  IF r.eof THEN [value |-> a, exception |-> EndOfFile]
        ELSE IF r.x > AGGREGATE_FUNCTION_GROUP_ARRAY_INSERT_AT_MAX_SIZE
        THEN [value |-> a, exception |-> "TOO_LARGE_ARRAY_SIZE"]
        ELSE deserializeLoop(resize(a, r.x), buf, r.pos, 0, r.x)

\* ------------------------------------------------------------------------
\* insertResultInto

\* to_offsets.back(): 0 for a column without rows.
back(offsets) == IF Len(offsets) = 0 THEN 0 ELSE offsets[Len(offsets)]

\* The first loop with its two branches exchanged.
RECURSIVE insertElems_swapped(_, _, _)
insertElems_swapped(data, a, i) ==
    IF i >= Len(a) THEN data
    ELSE insertElems_swapped(Append(data, IF isNull(a[i + 1]) THEN a[i + 1]
                                          ELSE default_value), a, i + 1)

\* The first loop: one element for every slot of the state.
RECURSIVE insertElems(_, _, _)
insertElems(data, a, i) ==
    IF i >= Len(a) THEN data
    ELSE insertElems(Append(data, IF ~isNull(a[i + 1]) THEN a[i + 1]
                                  ELSE default_value), a, i + 1)

\* The padding loop inserting the type's default, not default_value.
RECURSIVE pad_type_default(_, _, _)
pad_type_default(data, i, result_array_size) ==
    IF i >= result_array_size THEN data
    ELSE pad_type_default(Append(data, getDefault(type_nullable)), i + 1,
                          result_array_size)

\* The padding loop, from index i up to result_array_size.
RECURSIVE pad(_, _, _)
pad(data, i, result_array_size) ==
    IF i >= result_array_size THEN data
    ELSE pad(Append(data, default_value), i + 1, result_array_size)

insertResultInto(a, data, offsets) ==
    LET result_array_size == IF length_to_resize # 0 THEN length_to_resize
                             ELSE Len(a)
    IN  [data |-> pad(insertElems(data, a, 0), Len(a), result_array_size),
         offsets |-> Append(offsets, back(offsets) + result_array_size)]

\* ------------------------------------------------------------------------
\* Inputs of the operations

AllFields == {Null} \cup {<<v>> : v \in Values}

\* Every array of at most n fields.
ArraysUpTo(n) == UNION {[1 .. k -> AllFields] : k \in 0 .. n}

\* A stream that declares size slots, all of them null.
RECURSIVE nullFlags(_)
nullFlags(size) == IF size = 0 THEN <<>> ELSE <<1>> \o nullFlags(size - 1)

\* buf without its last byte.
cutShort(buf) == SubSeq(buf, 1, Len(buf) - 1)

\* Arrays whose serialization arrives from outside: every pattern of empty
\* and filled slots, the filled ones holding 1.
InputArrays ==
    UNION {[1 .. k -> {Null, <<1>>}] : k \in 0 .. MaxSize}

\* Byte streams handed to deserialize: the serialization of the input
\* arrays, a stream that declares one slot more than the cap, and the
\* longest serialization cut short by one byte.
InputStreams ==
    {serialize(a) : a \in InputArrays}
    \cup {writeVarUInt(MaxSize + 1) \o nullFlags(MaxSize + 1)}
    \cup {cutShort(serialize([i \in 1 .. MaxSize |-> <<1>>]))}

\* ------------------------------------------------------------------------
\* History kept for the properties

\* Nothing inserted yet into a state made of inserts alone.
Fresh == [tracked |-> TRUE,
          value |-> [i \in 1 .. MaxSize |-> <<>>],
          again |-> {}]

\* The state was written by merge or deserialize.
Untracked == [Fresh EXCEPT !.tracked = FALSE]

\* The history of a state after add(position, value) returned normally.
noteInsert(h, position, value) ==
    IF ~h.tracked THEN h
    ELSE IF length_to_resize # 0 /\ position >= length_to_resize THEN h
    ELSE IF h.value[position + 1] = <<>>
    THEN [h EXCEPT !.value[position + 1] = <<value>>]
    ELSE [h EXCEPT !.again = @ \cup {position}]

\* No record is kept of the state the rows build in one sequence.
SerialOff == [on |-> FALSE, rows |-> "none", value |-> <<>>]

\* No row was inserted yet: the rows of place 1 come first.
SerialFresh == [on |-> TRUE, rows |-> "first", value |-> <<>>]

\* The states are no longer those of two row sequences inserted one after
\* the other without an exception.
SerialLost == [on |-> TRUE, rows |-> "lost", value |-> <<>>]

lose(s) == IF s.on THEN SerialLost ELSE s

\* The record after add(position, value) on the state at place returned r:
\* the row is inserted into the one state as well, as long as the rows
\* of place 1 all came before the rows of place 2.
noteRow(s, place, position, value, r) ==
    IF s.rows \notin {"first", "second"} THEN lose(s)
    ELSE IF r.exception # NoException THEN SerialLost
    ELSE IF place = 1 /\ s.rows = "second" THEN SerialLost
    ELSE [s EXCEPT !.rows = IF place = 1 THEN "first" ELSE "second",
                   !.value = add(@, position, value).value]

\* The record after merge(place, rhs): the state of the rows of place 2
\* was merged into the state of the rows of place 1.
noteMerge(s, place, rhs) ==
    IF s.rows \in {"first", "second"} /\ place = 1 /\ rhs = 2
    THEN [s EXCEPT !.rows = "merged"]
    ELSE lose(s)

\* ------------------------------------------------------------------------
\* The state machine

\* The history of a newly created state; it is recorded for the state at
\* place 1 only.
New(place) == IF tracking /\ place = 1 THEN Fresh ELSE Untracked

Constructed ==
    /\ type_nullable \in BOOLEAN
    /\ \E params \in Parameters :
          LET c == Constructor(type_nullable, TRUE, params)
          IN  /\ c.exception = NoException
              /\ default_value = c.default_value
              /\ length_to_resize = c.length_to_resize
    /\ arr = [p \in Places |-> <<>>]
    /\ to_data = <<>>
    /\ to_offsets = <<>>
    /\ finalized = 0
    /\ exception = NoException
    /\ last = "none"

Init ==
    /\ Constructed
    /\ tracking = FALSE
    /\ first = [p \in Places |-> New(p)]
    /\ serial = SerialOff

\* Rows are added, states merged and read while no result was written yet.
Aggregating == to_offsets = <<>>

\* create(place): a new, empty state replaces the one at place.
Create(place) ==
    /\ Aggregating
    /\ arr[place] # <<>>
    /\ arr' = [arr EXCEPT ![place] = <<>>]
    /\ exception' = NoException
    /\ last' = "create"
    /\ first' = [first EXCEPT ![place] = New(place)]
    /\ serial' = lose(serial)
    /\ UNCHANGED <<config, to_data, to_offsets, finalized>>

Add(place, position, value) ==
    /\ Aggregating
    /\ LET r == add(arr[place], position, value)
       IN  /\ arr' = [arr EXCEPT ![place] = r.value]
           /\ exception' = r.exception
           /\ last' = r.branch
           /\ first' = [first EXCEPT ![place] =
                           IF r.exception = NoException
                           THEN noteInsert(@, position, value) ELSE @]
           /\ serial' = noteRow(serial, place, position, value, r)
    /\ UNCHANGED <<config, to_data, to_offsets, finalized>>

Merge(place, rhs) ==
    /\ Aggregating
    /\ place # rhs
    /\ arr' = [arr EXCEPT ![place] = merge(arr[place], arr[rhs])]
    /\ exception' = NoException
    /\ last' = "merge"
    /\ first' = [first EXCEPT ![place] = Untracked]
    /\ serial' = noteMerge(serial, place, rhs)
    /\ UNCHANGED <<config, to_data, to_offsets, finalized>>

\* deserialize of a stream that arrives from outside.
Deserialize(place, buf) ==
    /\ Aggregating
    /\ LET r == deserialize(arr[place], buf)
       IN  /\ arr' = [arr EXCEPT ![place] = r.value]
           /\ exception' = r.exception
    /\ last' = "deserialize"
    /\ first' = [first EXCEPT ![place] = Untracked]
    /\ serial' = lose(serial)
    /\ UNCHANGED <<config, to_data, to_offsets, finalized>>

\* The state at place is shipped to another host: serialize, then
\* deserialize of those bytes into a newly created state, which takes its
\* place.
Transfer(place) ==
    /\ Aggregating
    /\ LET r == deserialize(<<>>, serialize(arr[place]))
       IN  /\ arr' = [arr EXCEPT ![place] = r.value]
           /\ exception' = r.exception
    /\ last' = "transfer"
    /\ first' = [first EXCEPT ![place] = Untracked]
    /\ serial' = lose(serial)
    /\ UNCHANGED <<config, to_data, to_offsets, finalized>>

\* The result of the group at place is written into an empty result column.
InsertResultInto(place) ==
    /\ Aggregating
    /\ LET r == insertResultInto(arr[place], to_data, to_offsets)
       IN  /\ to_data' = r.data
           /\ to_offsets' = r.offsets
    /\ finalized' = place
    /\ exception' = NoException
    /\ last' = "insertResultInto"
    /\ UNCHANGED <<config, arr, first, serial>>

\* The result column is handed over, the states are destroyed and a new
\* aggregation starts with the same function.
Restart ==
    /\ ~Aggregating
    /\ arr' = [p \in Places |-> <<>>]
    /\ to_data' = <<>>
    /\ to_offsets' = <<>>
    /\ finalized' = 0
    /\ exception' = NoException
    /\ last' = "none"
    /\ first' = [p \in Places |-> New(p)]
    /\ serial' = IF serial.on THEN SerialFresh ELSE SerialOff
    /\ UNCHANGED config

\* Place 1 is the state that is aggregated on this host: rows are added to
\* it and other states are merged into it.  Place 2 is a partial state
\* received from another host: it is deserialized and merged into place 1.
Next ==
    \/ \E place \in Places : Create(place)
    \/ \E position \in Positions, value \in ColumnValues(type_nullable) :
          Add(1, position, value)
    \/ Merge(1, 2)
    \/ \E buf \in InputStreams : Deserialize(2, buf)
    \/ \E place \in Places : Transfer(place)
    \/ \E place \in Places : InsertResultInto(place)
    \/ Restart

Spec == Init /\ [][Next]_vars

\* One state built by inserts alone, with the history of the inserts
\* recorded, and its result written.
InitInserts ==
    /\ Constructed
    /\ tracking = TRUE
    /\ first = [p \in Places |-> New(p)]
    /\ serial = SerialOff

NextInserts ==
    \/ Create(1)
    \/ \E position \in Positions, value \in ColumnValues(type_nullable) :
          Add(1, position, value)
    \/ InsertResultInto(1)
    \/ Restart

SpecInserts == InitInserts /\ [][NextInserts]_vars

\* The function is constructed again, for another query, from the types
\* and parameters given: the new function starts without states, and no
\* function is left when the constructor throws.
Construct(nullable, position_isUInt, params) ==
    LET c == Constructor(nullable, position_isUInt, params)
        thrown == c.exception # NoException
    IN  /\ type_nullable' = nullable
        /\ default_value' = IF thrown THEN Null ELSE c.default_value
        /\ length_to_resize' = IF thrown THEN 0 ELSE c.length_to_resize
        /\ exception' = c.exception
        /\ last' = IF thrown THEN "constructor thrown" ELSE "constructor"
        /\ arr' = [p \in Places |-> <<>>]
        /\ to_data' = <<>>
        /\ to_offsets' = <<>>
        /\ finalized' = 0
        /\ first' = [p \in Places |-> New(p)]
        /\ UNCHANGED <<tracking, serial>>

\* A function was constructed.
Exists == last # "constructor thrown"

\* Functions are constructed from every kind of argument types and
\* parameters, and a constructed function aggregates one state.
NextConstruct ==
    \/ \E nullable \in BOOLEAN, position_isUInt \in BOOLEAN,
          params \in Parameters :
          Construct(nullable, position_isUInt, params)
    \/ /\ Exists
       /\ \E position \in Positions, value \in ColumnValues(type_nullable) :
             Add(1, position, value)
    \/ /\ Exists
       /\ InsertResultInto(1)
    \/ Restart

SpecConstruct == Init /\ [][NextConstruct]_vars

\* Two states built on two shards by inserts, merged either way, and the
\* result written: every state comes from empty states by add and merge.
InitShards == Init

NextShards ==
    \/ \E place \in Places, position \in Positions,
          value \in ColumnValues(type_nullable) :
          Add(place, position, value)
    \/ \E place, rhs \in Places : Merge(place, rhs)
    \/ \E place \in Places : InsertResultInto(place)
    \/ Restart

SpecShards == InitShards /\ [][NextShards]_vars

\* The same two shards, with the record of the state that the rows of
\* place 1 followed by the rows of place 2 build in one state.
InitSerial ==
    /\ Constructed
    /\ tracking = FALSE
    /\ first = [p \in Places |-> New(p)]
    /\ serial = SerialFresh

SpecSerial == InitSerial /\ [][NextShards]_vars

TypeOK ==
    /\ type_nullable \in BOOLEAN
    /\ length_to_resize \in 0 .. MaxSize
    /\ \A p \in Places : arr[p] \in Seq(AllFields)
    /\ Len(to_offsets) <= 1
    /\ finalized \in {0} \cup Places

\* ------------------------------------------------------------------------
\* Properties

AddBranches ==
    {"add ignored", "add thrown", "add resized", "add kept", "add stored"}

\* C1: in every reachable state, under every accepted configuration, no
\* aggregation state has more slots than the cap.
C1_SizeWithinCap ==
    \A place \in Places :
        Len(arr[place]) <= AGGREGATE_FUNCTION_GROUP_ARRAY_INSERT_AT_MAX_SIZE

\* An add has just grown a state to exactly the cap.
C1_Witness ==
    /\ last = "add resized"
    /\ \E place \in Places :
          Len(arr[place]) = AGGREGATE_FUNCTION_GROUP_ARRAY_INSERT_AT_MAX_SIZE

\* C2: a step of add or merge leaves every non-null slot of every state as
\* it was: same index, same value.
C2_NonNullSlotKept ==
    [][(last' \in AddBranches \cup {"merge"}) =>
          \A place \in Places : \A i \in 1 .. Len(arr[place]) :
              ~isNull(arr[place][i]) =>
                  /\ Len(arr'[place]) >= i
                  /\ arr'[place][i] = arr[place][i]]_vars

\* An add has just met a slot that was already filled.
C2_Witness ==
    /\ last = "add kept"
    /\ \E place \in Places : \E i \in 1 .. Len(arr[place]) :
          ~isNull(arr[place][i])

\* What the last insertResultInto appended for index i (0-based) is f.
Emitted(i, f) == Len(to_data) > i /\ to_data[i + 1] = f

\* The first field the state at place 1 received at position p.
FirstAt(p) == first[1].value[p + 1][1]

\* C3 as stated: whatever value came first at a position that received a
\* value again, insertResultInto emits that first value there.
C3_FirstWriteWinsAnyValue ==
    (finalized = 1 /\ first[1].tracked) =>
        \A p \in first[1].again : Emitted(p, FirstAt(p))

\* C3: when the first value a position received is not null and the
\* position received a value again, insertResultInto emits the first value
\* at that position.
C3_FirstWriteWins ==
    (finalized = 1 /\ first[1].tracked) =>
        \A p \in first[1].again :
            ~isNull(FirstAt(p)) => Emitted(p, FirstAt(p))

\* The result was written of a state in which a position received a
\* non-null value and later another insert.
C3_Witness ==
    /\ finalized = 1
    /\ first[1].tracked
    /\ \E p \in first[1].again : ~isNull(FirstAt(p))

\* C4: a state shipped as bytes arrives as it was sent: same length, same
\* empty slots, same values, and no exception.
C4_RoundTrip ==
    [][last' = "transfer" => (arr' = arr /\ exception' = NoException)]_vars

\* A state of full length with an empty and a filled slot was shipped.
C4_Witness ==
    /\ last = "transfer"
    /\ Len(arr[1]) = MaxSize
    /\ \E i, j \in 1 .. MaxSize : isNull(arr[1][i]) /\ ~isNull(arr[1][j])

\* The other place.
Other(place) == IF place = 1 THEN 2 ELSE 1

\* The length the result is to have.
OutputLength(a) == IF length_to_resize # 0 THEN length_to_resize ELSE Len(a)

\* C5: insertResultInto emits exactly length_to_resize elements when that
\* is not zero, and as many elements as the state has slots otherwise.
C5_LengthRule ==
    finalized # 0 => Len(to_data) = OutputLength(arr[finalized])

\* C6: merge leaves the destination with the larger of the two sizes; each
\* slot keeps the destination's value if it had one, takes the value of
\* rhs if only rhs had one, and is empty otherwise.
MergeResult(dst, src) ==
    [i \in 1 .. (IF Len(dst) >= Len(src) THEN Len(dst) ELSE Len(src)) |->
        IF i <= Len(dst) /\ ~isNull(dst[i]) THEN dst[i]
        ELSE IF i <= Len(src) /\ ~isNull(src[i]) THEN src[i]
        ELSE Null]

C6_MergeResult ==
    [][last' = "merge" =>
          \A place \in Places :
              Merge(place, Other(place)) =>
                  /\ arr'[place] = MergeResult(arr[place], arr[Other(place)])
                  /\ arr'[Other(place)] = arr[Other(place)]]_vars

\* A merge has just ended with a full destination next to a state that has
\* an empty slot and a filled slot whose value the destination does not
\* hold.
C6_Witness ==
    /\ last = "merge"
    /\ \E place \in Places :
          /\ Len(arr[place]) = MaxSize
          /\ Len(arr[Other(place)]) = MaxSize
          /\ \A i \in 1 .. MaxSize : ~isNull(arr[place][i])
          /\ \E i, k \in 1 .. MaxSize :
                /\ isNull(arr[Other(place)][i])
                /\ ~isNull(arr[Other(place)][k])
                /\ arr[Other(place)][k] # arr[place][k]

\* No position is non-empty in more than one of a, b and c.
Filled(a) == {i \in 1 .. Len(a) : ~isNull(a[i])}

NoSharedPosition(a, b, c) ==
    /\ Filled(a) \cap Filled(b) = {}
    /\ Filled(a) \cap Filled(c) = {}
    /\ Filled(b) \cap Filled(c) = {}

\* C7: for the two states at hand and any third state, when no position is
\* filled in more than one of them, merging in either order and in either
\* grouping gives the same state.
C7_MergeCommutesAndAssociates ==
    \A c \in ArraysUpTo(MaxSize) :
        LET a == arr[1]
            b == arr[2]
        IN  NoSharedPosition(a, b, c) =>
                /\ merge(a, b) = merge(b, a)
                /\ merge(merge(a, b), c) = merge(a, merge(b, c))
                /\ merge(merge(a, b), c) = merge(merge(c, b), a)

\* Two states of different sizes, each with a filled slot the other lacks.
C7_Witness ==
    /\ Len(arr[1]) < Len(arr[2])
    /\ Filled(arr[1]) # {}
    /\ Filled(arr[2]) # {}
    /\ Filled(arr[1]) \cap Filled(arr[2]) = {}
    /\ Filled(merge(arr[1], arr[2])) = Filled(arr[1]) \cup Filled(arr[2])
    /\ Len(merge(arr[2], arr[1])) = MaxSize

\* C8: merging an empty state into a state leaves that state as it was,
\* and merging a state into an empty state makes it equal to that state.
C8_MergeAbsorbsEmpty ==
    [][last' = "merge" =>
          \A place \in Places :
              Merge(place, Other(place)) =>
                  /\ arr[Other(place)] = <<>> => arr'[place] = arr[place]
                  /\ arr[place] = <<>> => arr'[place] = arr[Other(place)]]_vars

\* A merge has just filled an empty state from one with an empty first
\* slot and a filled slot.
C8_Witness ==
    /\ last = "merge"
    /\ arr[1] = arr[2]
    /\ Len(arr[1]) = MaxSize
    /\ isNull(arr[1][1])
    /\ ~isNull(arr[1][MaxSize])

\* C9: for every index below the output length, insertResultInto emits the
\* slot's value where the state has a filled slot, and default_value
\* elsewhere.
C9_ElementRule ==
    finalized # 0 =>
        LET a == arr[finalized]
        IN  \A i \in 0 .. (OutputLength(a) - 1) :
                Emitted(i, IF i < Len(a) /\ ~isNull(a[i + 1]) THEN a[i + 1]
                           ELSE default_value)

\* The result was written, with a configured default, of a state shorter
\* than length_to_resize that holds a value.
C9_Witness ==
    /\ finalized # 0
    /\ default_value = <<-1>>
    /\ length_to_resize > Len(arr[finalized])
    /\ Filled(arr[finalized]) # {}
    /\ to_data[Len(to_data)] = <<-1>>

\* C10: in every reachable state an add at a position at or beyond a
\* non-zero length_to_resize throws nothing and leaves the state as it is,
\* so that serialize writes the same bytes and insertResultInto emits the
\* same result as before.
C10_TruncationNoOp ==
    length_to_resize # 0 =>
        \A place \in Places, position \in Positions,
           value \in ColumnValues(type_nullable) :
            position >= length_to_resize =>
                LET r == add(arr[place], position, value)
                IN  /\ r.exception = NoException
                    /\ r.value = arr[place]
                    /\ Len(serialize(r.value)) = Len(serialize(arr[place]))

\* An add beyond length_to_resize was ignored by a state that holds a value.
C10_Witness ==
    /\ last = "add ignored"
    /\ length_to_resize # 0
    /\ \E place \in Places : Filled(arr[place]) # {}

\* ------------------------------------------------------------------------
\* C11: the cap on positions

\* C11 as stated: in every reachable state and under every configuration an
\* add at the cap or at any larger position throws TOO_LARGE_ARRAY_SIZE,
\* and an add at the cap minus one throws nothing.
C11_CapAlwaysThrows ==
    \A place \in Places, position \in Positions,
       value \in ColumnValues(type_nullable) :
        LET r == add(arr[place], position, value)
        IN  /\ position >= AGGREGATE_FUNCTION_GROUP_ARRAY_INSERT_AT_MAX_SIZE
                    => r.exception = "TOO_LARGE_ARRAY_SIZE"
            /\ position = AGGREGATE_FUNCTION_GROUP_ARRAY_INSERT_AT_MAX_SIZE - 1
                    => r.exception = NoException

\* C11: an add at the cap or at any larger position throws
\* TOO_LARGE_ARRAY_SIZE when length_to_resize is zero, and is ignored
\* without an exception when length_to_resize is not zero; an add at the cap
\* minus one throws nothing, and the state has a slot for it unless
\* length_to_resize cuts that position off.
C11_CapThrowsWithoutLength ==
    \A place \in Places, position \in Positions,
       value \in ColumnValues(type_nullable) :
        LET r == add(arr[place], position, value)
        IN  /\ position >= AGGREGATE_FUNCTION_GROUP_ARRAY_INSERT_AT_MAX_SIZE
                    => /\ r.exception = IF length_to_resize = 0
                                        THEN "TOO_LARGE_ARRAY_SIZE"
                                        ELSE NoException
                       /\ r.value = arr[place]
            /\ position = AGGREGATE_FUNCTION_GROUP_ARRAY_INSERT_AT_MAX_SIZE - 1
                    => /\ r.exception = NoException
                       /\ (length_to_resize = 0
                              \/ position < length_to_resize)
                            => Len(r.value) >= position + 1

\* An add threw at the cap, in a state whose last slot, the cap minus one,
\* was filled before.
C11_Witness ==
    /\ last = "add thrown"
    /\ exception = "TOO_LARGE_ARRAY_SIZE"
    /\ length_to_resize = 0
    /\ Len(arr[1]) = AGGREGATE_FUNCTION_GROUP_ARRAY_INSERT_AT_MAX_SIZE
    /\ ~isNull(arr[1][Len(arr[1])])

\* ------------------------------------------------------------------------
\* C12: the cap on the declared size

\* The declared sizes tried: every one up to the cap, and one beyond it.
DeclaredSizes == 0 .. (MaxSize + 1)

\* The greatest number of a non-empty set of numbers.
Largest(S) == CHOOSE n \in S : \A k \in S : k <= n

\* The size of the largest state deserialize accepts.
LargestDeserialized ==
    Largest({size \in DeclaredSizes :
                deserialize(<<>>, writeVarUInt(size) \o nullFlags(size))
                    .exception = NoException})

\* The size of the largest state add builds: an add at position p of a new
\* state leaves p + 1 slots, and no add grows a state beyond the greatest
\* position it accepts.
LargestAdded ==
    Largest({Len(add(<<>>, position, <<1>>).value) : position \in Positions})

\* The bound of deserialize: a declared size above the cap throws
\* TOO_LARGE_ARRAY_SIZE, also when the stream ends after the size, and
\* leaves the state as it is; every size up to the cap is accepted and
\* leaves that many slots.
DeserializeBound ==
    \A place \in Places, size \in DeclaredSizes :
        LET r == deserialize(arr[place],
                             writeVarUInt(size) \o nullFlags(size))
            e == deserialize(arr[place], writeVarUInt(size))
        IN  IF size > AGGREGATE_FUNCTION_GROUP_ARRAY_INSERT_AT_MAX_SIZE
            THEN /\ r.exception = "TOO_LARGE_ARRAY_SIZE"
                 /\ e.exception = "TOO_LARGE_ARRAY_SIZE"
                 /\ r.value = arr[place]
            ELSE /\ r.exception = NoException
                 /\ Len(r.value) = size

\* C12 as stated: the bound of deserialize holds, and under every
\* configuration the largest state deserialize accepts has the size of the
\* largest state add builds.
C12_LargestStatesAgree ==
    /\ DeserializeBound
    /\ LargestDeserialized = LargestAdded

\* C12: the bound of deserialize holds and the largest state it accepts has
\* as many slots as the cap; the largest state add builds has as many when
\* length_to_resize is zero, and length_to_resize slots otherwise.
C12_DeserializeBound ==
    /\ DeserializeBound
    /\ LargestDeserialized = AGGREGATE_FUNCTION_GROUP_ARRAY_INSERT_AT_MAX_SIZE
    /\ LargestAdded = IF length_to_resize = 0
                      THEN AGGREGATE_FUNCTION_GROUP_ARRAY_INSERT_AT_MAX_SIZE
                      ELSE length_to_resize

\* deserialize accepted a stream that declares as many slots as the cap,
\* beside a state that add filled up to the cap.
C12_Witness ==
    /\ last = "deserialize"
    /\ exception = NoException
    /\ Len(arr[2]) = AGGREGATE_FUNCTION_GROUP_ARRAY_INSERT_AT_MAX_SIZE
    /\ Len(arr[1]) = AGGREGATE_FUNCTION_GROUP_ARRAY_INSERT_AT_MAX_SIZE
    /\ length_to_resize = 0

\* ------------------------------------------------------------------------
\* C13: what deserialize leaves

\* C13 as stated: deserialize of the serialization of an array leaves that
\* array, the declared size with every slot of flag 1 empty and every slot
\* of flag 0 holding its value, whatever the state held before.
C13_StreamAlone ==
    \A place \in Places, a \in InputArrays :
        deserialize(arr[place], serialize(a)) =
            [value |-> a, exception |-> NoException]

\* C13: deserialize of the serialization of an array leaves the declared
\* size; a slot of flag 0 holds the decoded value; a slot of flag 1 holds
\* what the state held there before, and is empty where the state had no
\* slot: a newly created state becomes the array of the stream.
C13_StreamOverState ==
    \A place \in Places, a \in InputArrays :
        LET old == arr[place]
            r == deserialize(old, serialize(a))
        IN  /\ r.exception = NoException
            /\ Len(r.value) = Len(a)
            /\ \A i \in 1 .. Len(a) :
                    r.value[i] = IF ~isNull(a[i]) THEN a[i]
                                 ELSE IF i <= Len(old) THEN old[i]
                                 ELSE Null
            /\ old = <<>> => r.value = a

\* deserialize returned normally and left a state with an empty slot and
\* a filled one.
C13_Witness ==
    /\ last = "deserialize"
    /\ exception = NoException
    /\ Filled(arr[2]) # {}
    /\ \E i \in 1 .. Len(arr[2]) : isNull(arr[2][i])

\* ------------------------------------------------------------------------
\* C14: length_to_resize bounds the states built by add and merge

\* C14: with a non-zero length_to_resize, every state reached from empty
\* states by add and merge has at most length_to_resize slots, and the
\* result written for it has exactly length_to_resize elements, all of
\* them default_value when the state is empty.
C14_SizeWithinLength ==
    length_to_resize # 0 =>
        /\ \A place \in Places : Len(arr[place]) <= length_to_resize
        /\ finalized # 0 => Len(to_data) = length_to_resize
        /\ (finalized # 0 /\ arr[finalized] = <<>>) =>
                \A i \in 1 .. Len(to_data) : to_data[i] = default_value

\* Scenario D: the only add was beyond length_to_resize and was ignored,
\* the state stayed empty beside a state that add and merge filled up to
\* length_to_resize.
C14_Witness ==
    /\ last = "add ignored"
    /\ length_to_resize # 0
    /\ length_to_resize < AGGREGATE_FUNCTION_GROUP_ARRAY_INSERT_AT_MAX_SIZE
    /\ \E place \in Places :
          /\ arr[place] = <<>>
          /\ Len(arr[Other(place)]) = length_to_resize

\* ------------------------------------------------------------------------
\* C15: what the constructor rejects

ConstructorErrors ==
    {"TOO_MANY_ARGUMENTS_FOR_FUNCTION", "TOO_LARGE_ARRAY_SIZE",
     "ILLEGAL_TYPE_OF_ARGUMENT", "CANNOT_CONVERT_TYPE"}

\* C15: the constructor throws TOO_MANY_ARGUMENTS_FOR_FUNCTION for more
\* than two parameters, TOO_LARGE_ARRAY_SIZE for a length parameter above
\* the cap, and ILLEGAL_TYPE_OF_ARGUMENT for a position type that is not an
\* unsigned integer when the parameters pass those two tests; it accepts a
\* length equal to the cap; and every function that was constructed has a
\* length_to_resize of at most the cap.
C15_ConstructorRejects ==
    /\ \A nullable \in BOOLEAN, position_isUInt \in BOOLEAN,
          params \in Parameters :
            LET c == Constructor(nullable, position_isUInt, params)
                long == Len(params) = 2 /\ params[2][1] >
                            AGGREGATE_FUNCTION_GROUP_ARRAY_INSERT_AT_MAX_SIZE
            IN  /\ Len(params) > 2
                        => c.exception = "TOO_MANY_ARGUMENTS_FOR_FUNCTION"
                /\ long => c.exception = "TOO_LARGE_ARRAY_SIZE"
                /\ ~position_isUInt
                        => /\ c.exception \in ConstructorErrors
                           /\ (Len(params) <= 2 /\ ~long)
                                => c.exception = "ILLEGAL_TYPE_OF_ARGUMENT"
                /\ (/\ position_isUInt
                    /\ Len(params) = 2
                    /\ params[1] # <<NotConvertible>>
                    /\ params[2][1] =
                            AGGREGATE_FUNCTION_GROUP_ARRAY_INSERT_AT_MAX_SIZE)
                        => /\ c.exception = NoException
                           /\ c.length_to_resize =
                                AGGREGATE_FUNCTION_GROUP_ARRAY_INSERT_AT_MAX_SIZE
    /\ last = "constructor thrown" => exception \in ConstructorErrors
    /\ Exists =>
          length_to_resize <= AGGREGATE_FUNCTION_GROUP_ARRAY_INSERT_AT_MAX_SIZE

\* The constructor has just accepted a length equal to the cap.
C15_Witness ==
    /\ last = "constructor"
    /\ exception = NoException
    /\ length_to_resize = AGGREGATE_FUNCTION_GROUP_ARRAY_INSERT_AT_MAX_SIZE

\* ------------------------------------------------------------------------
\* C16: data and offsets of the result column

\* C16: after insertResultInto the nested data column holds exactly as many
\* elements as the offset was advanced by, for every state that add, merge
\* and deserialize build and every configuration.
C16_DataMatchesOffsets ==
    finalized # 0 => Len(to_data) = back(to_offsets)

\* ------------------------------------------------------------------------
\* C17: merging two shards against inserting in one state

\* C17: when the rows of place 1 and then the rows of place 2 were added
\* without an exception and the state at place 2 was merged into the state
\* at place 1, the state at place 1 is the state that the same rows, those
\* of place 1 followed by those of place 2, build when added to one state,
\* and the result written for it is the result of that state.
C17_MergeIsSequentialInsert ==
    serial.rows = "merged" =>
        /\ arr[1] = serial.value
        /\ finalized = 1 =>
              [data |-> to_data, offsets |-> to_offsets] =
                  insertResultInto(serial.value, <<>>, <<>>)

\* Two shards that hold different values at the same position were
\* merged, the merged state fills a slot that the state at place 2 leaves
\* empty, and its result was written.
C17_Witness ==
    /\ serial.rows = "merged"
    /\ finalized = 1
    /\ \E i \in Filled(arr[2]) : arr[1][i] # arr[2][i]
    /\ Filled(arr[1]) # Filled(arr[2])

\* ------------------------------------------------------------------------
\* C18: a rejected call leaves the state alone

\* C18: whenever add or deserialize throws TOO_LARGE_ARRAY_SIZE, every
\* state is after the call exactly what it was before it.
C18_RejectedCallKeepsState ==
    [][(last' \in {"add thrown", "deserialize"}
            /\ exception' = "TOO_LARGE_ARRAY_SIZE") => arr' = arr]_vars

\* deserialize has just rejected a stream for a state that holds a value
\* and an empty slot.
C18_Witness ==
    /\ last = "deserialize"
    /\ exception = "TOO_LARGE_ARRAY_SIZE"
    /\ Filled(arr[2]) # {}
    /\ Filled(arr[2]) # 1 .. Len(arr[2])

\* ------------------------------------------------------------------------
\* C19: where the value of a slot comes from

\* C19: through every add and every merge, a filled slot of a state either
\* held its value before, or the call was the add of that value at that
\* position, or the call was a merge and the other state held that value
\* at the same position; so every filled slot of a state built by add and
\* merge holds a value of the argument column that an add supplied at its
\* position, in that state or in one merged into it.
C19_Provenance ==
    [][last' \in AddBranches \cup {"merge"} =>
        \A place \in Places : \A i \in Filled(arr'[place]) :
            LET v == arr'[place][i]
            IN  \/ i <= Len(arr[place]) /\ arr[place][i] = v
                \/ /\ last' = "merge"
                   /\ i <= Len(arr[Other(place)])
                   /\ arr[Other(place)][i] = v
                \/ /\ last' # "merge"
                   /\ v \in ColumnValues(type_nullable)
                   /\ Add(place, i - 1, v)]_vars

\* A merge has just left a state that keeps a value of its own where the
\* other state holds a different one and shares another value with it,
\* under a default_value that no add supplied.
C19_Witness ==
    /\ last = "merge"
    /\ default_value = <<-1>>
    /\ \E i, j \in Filled(arr[1]) \cap Filled(arr[2]) :
          /\ arr[1][i] # arr[2][i]
          /\ arr[1][j] = arr[2][j]

\* ------------------------------------------------------------------------
\* C20: the add of a null value

\* The positions add accepts under the configuration.
InRange(position) ==
    /\ position < AGGREGATE_FUNCTION_GROUP_ARRAY_INSERT_AT_MAX_SIZE
    /\ length_to_resize = 0 \/ position < length_to_resize

\* Slot position of a holds no value: it is null or beyond the size.
EmptyAt(a, position) == position >= Len(a) \/ isNull(a[position + 1])

\* C20: with a Nullable value type, the add of a null value at a position
\* in range throws nothing and leaves a state of at least position + 1
\* slots; a slot that held no value holds none afterwards, and then the
\* add of a non-null value at the position stores that value, and the
\* merge of a state that holds a value at the position copies that value.
C20_NullInsertLeavesSlotEmpty ==
    type_nullable =>
        \A place \in Places, position \in Positions :
            InRange(position) =>
                LET r == add(arr[place], position, Null)
                    b == arr[Other(place)]
                IN  /\ r.exception = NoException
                    /\ Len(r.value) >= position + 1
                    /\ EmptyAt(arr[place], position) =>
                          /\ EmptyAt(r.value, position)
                          /\ \A v \in Values :
                                add(r.value, position, <<v>>)
                                    .value[position + 1] = <<v>>
                          /\ ~EmptyAt(b, position) =>
                                merge(r.value, b)[position + 1] =
                                    b[position + 1]

\* The add of a null value has just grown a state, whose last slot is
\* empty, beside a state that holds a value at that position.
C20_Witness ==
    /\ type_nullable
    /\ last = "add resized"
    /\ \E place \in Places :
          /\ arr[place] # <<>>
          /\ isNull(arr[place][Len(arr[place])])
          /\ ~EmptyAt(arr[Other(place)], Len(arr[place]) - 1)

====
